---------------------------- MODULE Spec2Model ----------------------------
(***************************************************************************)
(* Arms-trade register enrichment (ArmsTradeData) and map aggregation      *)
(* (MapPlotter) of bartek-c/arms_trade_plotly.                             *)
(*                                                                         *)
(* Representation.                                                        *)
(*  - A partner name is a sequence of text tokens; the asterisk marker is  *)
(*    the token "*", a blank is " ", brackets are "(" and ")".  endswith,  *)
(*    rstrip, the 'unknown' substring test, the bracket regex and          *)
(*    split(' ') are computed on that sequence.                            *)
(*  - A nullable cell (None / NaN) is <<>>, a present cell v is <<v>>.     *)
(*  - A frame whose row order and duplicates matter (the register) is a    *)
(*    sequence of records; an aggregate frame, whose rows are unique by    *)
(*    key, is a set of records (row order is not modelled).                *)
(*  - ln(1 + a) is kept symbolically: signed_log gives [sgn, arg] standing *)
(*    for sgn * ln(arg).  Where a number is needed, value_of reads it at   *)
(*    a resolution of three decimals (a whole number of thousandths), with *)
(*    ln computed by halving and the atanh series and exp by its Taylor    *)
(*    series, each step rounded to that resolution.                        *)
(*  - A title is the sequence of the parts it is concatenated from.        *)
(***************************************************************************)
EXTENDS Integers, Sequences, FiniteSets, TLC

VARIABLES
    raw,            \* the rows of the CSV as loaded (never written again)
    df,             \* ArmsTradeData.df, later MapPlotter.df
    countries,      \* ArmsTradeData.countries
    rebel_groups,   \* ArmsTradeData.rebel_groups
    orgs,           \* ArmsTradeData.orgs
    pc,             \* position in get_arms_trade_data / MapPlotter life cycle
    mp,             \* the MapPlotter's query fields
    data,           \* MapPlotter.data
    iso_a3,         \* MapPlotter.iso_a3 (nullable)
    exc,            \* the exception the last MapPlotter call raised, or ""
    world_map_data, \* the module-level boundary table of plot_maps
    plot_dict       \* MapPlotter.plot_dict

vars == <<raw, df, countries, rebel_groups, orgs, pc, mp, data, iso_a3, exc,
          world_map_data, plot_dict>>

\* Largest number of rows of a register.
MaxRows == 2
\* Largest magnitude the laws of signed_log are evaluated at.
MaxAbs == 100

NULL == <<>>
Some(v) == <<v>>

----------------------------------------------------------------------------
(* Partner names of the register *)

Russia == <<"Russia">>
India == <<"India">>
Singapore == <<"Singapore">>
SovietUnion == <<"Soviet Union">>
NATO == <<"NATO", "*", "*">>
EuropeanUnion == <<"European Union", "*", "*">>
LTTE == <<"LTTE", " ", "(", "Sri Lanka", ")", "*">>
UnknownRebels == <<"unknown", " ", "rebel", " ", "group", "*">>

\* str.endswith('*' * k)
endswith(name, k) ==
    /\ Len(name) >= k
    /\ \A i \in 1..k : name[Len(name) - k + i] = "*"

\* 'unknown' in region
HasUnknown(name) == \E i \in 1..Len(name) : name[i] = "unknown"

\* Dropping one trailing asterisk only
rstrip_once(name) ==
    IF Len(name) > 0 /\ name[Len(name)] = "*"
    THEN SubSeq(name, 1, Len(name) - 1)
    ELSE name

\* str.rstrip('*')
RECURSIVE rstrip(_)
rstrip(name) ==
    IF Len(name) > 0 /\ name[Len(name)] = "*"
    THEN rstrip(SubSeq(name, 1, Len(name) - 1))
    ELSE name

\* The black-box directory lookup pycountry.countries.search_fuzzy(x)[0].alpha_3;
\* a candidate outside the table raises LookupError.
search_fuzzy ==
    [c \in {Russia, India, Singapore, <<"Sri Lanka">>} |->
        CASE c = Russia -> "RUS"
          [] c = India -> "IND"
          [] c = Singapore -> "SGP"
          [] OTHER -> "LKA"]

former_countries ==
    { <<"Biafra">>, <<"Czechoslovakia">>, <<"East Germany (GDR)">>, <<"North Yemen">>,
      <<"Northern Cyprus">>, <<"South Vietnam">>, <<"South Yemen">>, SovietUnion,
      <<"Yugoslavia">> }

\* ArmsTradeData.regions
regions(frame) ==
    {frame[i].Supplier : i \in 1..Len(frame)} \cup {frame[i].Recipient : i \in 1..Len(frame)}

countries_of(frame) ==
    {r \in regions(frame) : ~HasUnknown(r) /\ ~endswith(r, 1)} \ former_countries

\* rebel_groups without the 'unknown' test
rebel_groups_of_any(frame) ==
    {r \in regions(frame) : endswith(r, 1) /\ ~endswith(r, 2)}

rebel_groups_of(frame) ==
    {r \in regions(frame) : ~HasUnknown(r) /\ endswith(r, 1) /\ ~endswith(r, 2)}

orgs_of(frame) ==
    {r \in regions(frame) : ~HasUnknown(r) /\ endswith(r, 2)}

get_region_type(region, cs, os, rs) ==
    IF region \in cs THEN "Country"
    ELSE IF region \in former_countries THEN "Former Country"
    ELSE IF region \in os THEN "Organisation"
    ELSE IF region \in rs THEN "Rebel Group"
    ELSE "Unknown"

\* dict.get: the value, or None
Get(m, k) == IF k \in DOMAIN m THEN Some(m[k]) ELSE NULL

country_overrides ==
    ( <<"Bosnia-Herzegovina">> :> "BIH" ) @@ ( <<"DR Congo">> :> "COD" ) @@
    ( <<"Libya GNC">> :> "LBY" ) @@ ( <<"Yemen Arab Republic (North Yemen)">> :> "YEM" ) @@
    ( <<"UAE">> :> "ARE" )

country_mapping(cs) ==
    country_overrides @@
    [c \in {x \in cs : x \in DOMAIN search_fuzzy} |-> search_fuzzy[c]]

former_country_mapping ==
    ( <<"Biafra">> :> "NGA" ) @@ ( <<"Czechoslovakia">> :> "CZE" ) @@
    ( <<"East Germany (GDR)">> :> "DEU" ) @@ ( <<"North Yemen">> :> "YEM" ) @@
    ( <<"Northern Cyprus">> :> "CYP" ) @@ ( <<"South Vietnam">> :> "VNM" ) @@
    ( <<"South Yemen">> :> "YEM" ) @@ ( SovietUnion :> "RUS" ) @@
    ( <<"Yugoslavia">> :> "SRB" )

org_mapping ==
    ( <<"African Union", "*", "*">> :> "ETH" ) @@ ( EuropeanUnion :> "BEL" ) @@
    ( NATO :> "BEL" ) @@ ( <<"OSCE", "*", "*">> :> "AUT" ) @@
    ( <<"Regional Security System", "*", "*">> :> "BRB" ) @@
    ( <<"United Nations", "*", "*">> :> "USA" )

\* Positions of a token in a name
Positions(name, tok) == {i \in 1..Len(name) : name[i] = tok}
Max(S) == CHOOSE x \in S : \A y \in S : y <= x
Min(S) == CHOOSE x \in S : \A y \in S : x <= y

\* re.search(r'\((.*?)\)', group).group(1): the text between the first "("
\* that has a ")" after it and the first ")" after that; NULL when no match.
bracketed(group) ==
    LET opens == {i \in Positions(group, "(") : \E j \in Positions(group, ")") : j > i}
    IN IF opens = {} THEN NULL
       ELSE LET i == Min(opens)
                j == Min({k \in Positions(group, ")") : k > i})
            IN Some(SubSeq(group, i + 1, j - 1))

\* group.split(' ', 1)[0]
first_word(group) ==
    IF Positions(group, " ") = {} THEN group
    ELSE SubSeq(group, 1, Min(Positions(group, " ")) - 1)

\* The code one rebel group gets from the two attempts, or NULL (pass).
rebel_group_code(group) ==
    LET b == bracketed(group)
    IN IF b # NULL /\ b[1] \in DOMAIN search_fuzzy THEN Some(search_fuzzy[b[1]])
       ELSE Get(search_fuzzy, first_word(group))

rebel_group_overrides ==
    ( <<"PIJ", " ", "(", "Israel/Palestine", ")", "*">> :> "PSE" ) @@
    ( <<"PRC", " ", "(", "Israel/Palestine", ")", "*">> :> "PSE" )

rebel_group_mapping(rs) ==
    rebel_group_overrides @@
    [g \in {x \in rs : rebel_group_code(x) # NULL} |-> rebel_group_code(g)[1]]

\* One side of assign_iso_a3_code_to_row; an Unknown partner's cell stays unset.
iso_for(name, type, cs, rs) ==
    CASE type = "Country" -> Get(country_mapping(cs), name)
      [] type = "Former Country" -> Get(former_country_mapping, name)
      [] type = "Organisation" -> Get(org_mapping, name)
      [] type = "Rebel Group" -> Get(rebel_group_mapping(rs), name)
      [] OTHER -> NULL

assign_iso_a3_code_to_row(row, cs, rs) ==
    [row EXCEPT
        !.Supplier_iso_a3 = iso_for(row.Supplier, row.Supplier_region_type, cs, rs),
        !.Recipient_iso_a3 = iso_for(row.Recipient, row.Recipient_region_type, cs, rs)]


----------------------------------------------------------------------------
(* ArmsTradeData: the steps of get_arms_trade_data, on the object         *)
(* a = [df, countries, rebel_groups, orgs]                                 *)

assign_region_types(a) ==
    LET cs == countries_of(a.df)
        rs == rebel_groups_of(a.df)
        os == orgs_of(a.df)
    IN [a EXCEPT
          !.countries = cs,
          !.rebel_groups = rs,
          !.orgs = os,
          !.df = [i \in 1..Len(a.df) |->
                    [Supplier_region_type |-> get_region_type(a.df[i].Supplier, cs, os, rs),
                     Recipient_region_type |-> get_region_type(a.df[i].Recipient, cs, os, rs)]
                    @@ a.df[i]]]

assign_iso_a3_codes(a) ==
    [a EXCEPT
       !.df = [i \in 1..Len(a.df) |->
                 assign_iso_a3_code_to_row(
                    [Supplier_iso_a3 |-> NULL, Recipient_iso_a3 |-> NULL] @@ a.df[i],
                    a.countries, a.rebel_groups)]]

remove_trailing_asterisk(a) ==
    [a EXCEPT
       !.df = [i \in 1..Len(a.df) |->
                 [a.df[i] EXCEPT !.Supplier = rstrip(@), !.Recipient = rstrip(@)]]]

----------------------------------------------------------------------------
(* The boundary dataset (get_world_map_data): code and canonical name of   *)
(* each renderable region; continent and geometry play no part here.       *)

get_world_map_data ==
    { [iso_a3 |-> "RUS", name |-> <<"Russia">>],
      [iso_a3 |-> "IND", name |-> <<"India">>],
      [iso_a3 |-> "BEL", name |-> <<"Belgium">>],
      [iso_a3 |-> "LKA", name |-> <<"Sri Lanka">>],
      [iso_a3 |-> "CHN", name |-> <<"China">>] }

sign(x) == IF x > 0 THEN 1 ELSE IF x < 0 THEN -1 ELSE 0
abs(x) == IF x < 0 THEN -x ELSE x

\* The transform without the sign factor
signed_log_unsigned(x) == [sgn |-> 1, arg |-> 1 + abs(x)]

\* np.sign(x) * np.log1p(np.abs(x)), kept as sgn * ln(arg)
signed_log(x) == [sgn |-> sign(x), arg |-> 1 + abs(x)]

\* The resolution of the transformed values, and ln 2 and e at that resolution
Scale == 1000
Ln2 == 693
Euler == 2718

RECURSIVE pow(_, _)
pow(b, k) == IF k = 0 THEN 1 ELSE b * pow(b, k - 1)

\* The number of times n >= 1 can be halved before it is below 2
RECURSIVE halvings(_)
halvings(n) == IF n >= 2 THEN 1 + halvings(n \div 2) ELSE 0

\* z + z^3/3 + z^5/5 + z^7/7, t the current odd power of z
RECURSIVE atanh_series(_, _, _)
atanh_series(t, z2, j) ==
    IF j > 7 THEN 0
    ELSE (t \div j) + atanh_series((t * z2) \div Scale, z2, j + 2)

\* np.log1p(a) for a whole a >= 0, in thousandths: 1 + a = 2^k * m with
\* 1 <= m < 2, ln(1 + a) = k * ln 2 + 2 * atanh((m - 1) / (m + 1))
log1p(a) ==
    LET k == halvings(1 + a)
        m == ((1 + a) * Scale) \div pow(2, k)
        z == ((m - Scale) * Scale) \div (m + Scale)
    IN k * Ln2 + 2 * atanh_series(z, (z * z) \div Scale, 1)

\* The number sgn * ln(arg) a transformed value stands for, in thousandths
value_of(l) == l.sgn * log1p(l.arg - 1)

\* 1 + f + f^2/2! + ... + f^7/7!, t the current term
RECURSIVE taylor(_, _, _)
taylor(t, f, j) ==
    IF j > 8 THEN 0
    ELSE t + taylor((t * f) \div (j * Scale), f, j + 1)

RECURSIVE times_e(_, _)
times_e(r, k) == IF k = 0 THEN r ELSE times_e((r * Euler) \div Scale, k - 1)

\* exp(y) for y >= 0 in thousandths, in thousandths: e^floor(y) * exp(frac(y))
exp(y) == times_e(taylor(Scale, y % Scale, 1), y \div Scale)

\* The inverse transform sign(y) * (exp(|y|) - 1), in thousandths
inverse(y) == sign(y) * (exp(abs(y)) - Scale)

\* int(self.year)
int(y) ==
    CASE y = "2020" -> 2020
      [] y = "1900" -> 1900

----------------------------------------------------------------------------
(* MapPlotter: the methods, on the object                                  *)
(* s = [df, activity, year, region_type, arms_category, region, data,      *)
(*      iso_a3, plot_dict]; region = <<>> is None.  prepare_plot_data,     *)
(* which can raise, returns [self, exc]; the get_plot_dict methods return  *)
(* [plot_dict, exc].  The unit column is "units", the date column "year".  *)

NoDataError == "No data for selected filters."

\* bool(self.region)
HasRegion(s) == s.region # <<>>

\* filter_data that filters the register itself (no copy)
filter_data_in_place(s) ==
    LET ByYear(r) == s.year = "Overall" \/ r.year = int(s.year)
        ByCategory(r) == s.arms_category = "All" \/ r.category = s.arms_category
        ByRegion(r) ==
            IF ~HasRegion(s) THEN TRUE
            ELSE IF s.activity = "Supplied"
                 THEN r.Supplier = s.region /\ r.Recipient_region_type = s.region_type
            ELSE IF s.activity = "Received" THEN r.Recipient = s.region
            ELSE r.Supplier = s.region \/ r.Recipient = s.region
        Keep(r) == ByYear(r) /\ ByCategory(r) /\ ByRegion(r)
    IN [s EXCEPT !.df = SelectSeq(s.df, Keep), !.data = SelectSeq(s.df, Keep)]

filter_data(s) ==
    LET ByYear(r) == s.year = "Overall" \/ r.year = int(s.year)
        ByCategory(r) == s.arms_category = "All" \/ r.category = s.arms_category
        ByRegion(r) ==
            IF ~HasRegion(s) THEN TRUE
            ELSE IF s.activity = "Supplied"
                 THEN r.Supplier = s.region /\ r.Recipient_region_type = s.region_type
            ELSE IF s.activity = "Received" THEN r.Recipient = s.region
            ELSE r.Supplier = s.region \/ r.Recipient = s.region
        Keep(r) == ByYear(r) /\ ByCategory(r) /\ ByRegion(r)
    IN [s EXCEPT !.data = SelectSeq(s.df, Keep)]

\* The identity (name, code, type) a row has on one side
Key(r, side) ==
    IF side = "Supplier"
    THEN <<r.Supplier, r.Supplier_iso_a3, r.Supplier_region_type>>
    ELSE <<r.Recipient, r.Recipient_iso_a3, r.Recipient_region_type>>

RECURSIVE SumUnits(_, _, _)
SumUnits(frame, side, key) ==
    IF frame = <<>> THEN 0
    ELSE (IF Key(Head(frame), side) = key THEN Head(frame).units ELSE 0)
         + SumUnits(Tail(frame), side, key)

\* The group keys of DataFrame.groupby([name, code, type]): dropna=True leaves
\* out every row with a null cell in a key column (the code is the nullable one).
GroupKeys(frame, side) ==
    {k \in {Key(frame[i], side) : i \in 1..Len(frame)} : k[2] # NULL}

\* groupby(...)[unit].sum().reset_index() with the key columns renamed
groupby(frame, side) ==
    { [Region |-> k[1], iso_a3 |-> k[2][1], Region_type |-> k[3],
       units |-> SumUnits(frame, side, k)] : k \in GroupKeys(frame, side) }

\* The outer merge of the two groupings on the identity, nulls filled with 0
outer_merge(frame) ==
    { [Region |-> k[1], iso_a3 |-> k[2][1], Region_type |-> k[3],
       Supplied |-> SumUnits(frame, "Supplier", k),
       Received |-> SumUnits(frame, "Recipient", k)]
      : k \in GroupKeys(frame, "Supplier") \cup GroupKeys(frame, "Recipient") }

with_log(rows) == { [log |-> signed_log(r.units)] @@ r : r \in rows }

\* calculate_totals_for_region with the global path's sign of the net balance
calculate_totals_for_region_unflipped(s) ==
    IF s.activity = "Supplied"
    THEN [s EXCEPT !.data =
            with_log({r \in groupby(s.data, "Recipient") : r.Region # s.region})]
    ELSE IF s.activity = "Received"
    THEN [s EXCEPT !.data =
            with_log({r \in groupby(s.data, "Supplier") : r.Region # s.region})]
    ELSE LET merged == outer_merge(s.data)
             total(r) == IF s.activity = "Net Balance"
                         THEN r.Supplied - r.Received
                         ELSE r.Supplied + r.Received
         IN [s EXCEPT !.data =
               with_log({ [units |-> total(r)] @@ r :
                          r \in {x \in merged : x.Region # s.region} })]

\* In the composite modes the 'Region', 'iso_a3' and 'Region_type' columns are
\* set from DataFrame.apply(axis=1); over a frame without rows that reduces to
\* an empty column, so an empty frame passes through unchanged.
calculate_totals_for_region(s) ==
    IF s.activity = "Supplied"
    THEN [s EXCEPT !.data =
            with_log({r \in groupby(s.data, "Recipient") : r.Region # s.region})]
    ELSE IF s.activity = "Received"
    THEN [s EXCEPT !.data =
            with_log({r \in groupby(s.data, "Supplier") : r.Region # s.region})]
    ELSE LET merged == outer_merge(s.data)
             total(r) == IF s.activity = "Net Balance"
                         THEN r.Received - r.Supplied
                         ELSE r.Supplied + r.Received
         IN [s EXCEPT !.data =
               with_log({ [units |-> total(r)] @@ r :
                          r \in {x \in merged : x.Region # s.region} })]

\* calculate_totals_global with the focus path's sign of the net balance
calculate_totals_global_flipped(s) ==
    IF s.activity = "Supplied"
    THEN [s EXCEPT !.data = with_log(groupby(s.data, "Supplier"))]
    ELSE IF s.activity = "Received"
    THEN [s EXCEPT !.data = with_log(groupby(s.data, "Recipient"))]
    ELSE LET merged == outer_merge(s.data)
             total(r) == IF s.activity = "Net Balance"
                         THEN r.Received - r.Supplied
                         ELSE r.Supplied + r.Received
         IN [s EXCEPT !.data = with_log({ [units |-> total(r)] @@ r : r \in merged })]

calculate_totals_global(s) ==
    IF s.activity = "Supplied"
    THEN [s EXCEPT !.data = with_log(groupby(s.data, "Supplier"))]
    ELSE IF s.activity = "Received"
    THEN [s EXCEPT !.data = with_log(groupby(s.data, "Recipient"))]
    ELSE LET merged == outer_merge(s.data)
             total(r) == IF s.activity = "Net Balance"
                         THEN r.Supplied - r.Received
                         ELSE r.Supplied + r.Received
         IN [s EXCEPT !.data = with_log({ [units |-> total(r)] @@ r : r \in merged })]

filter_region_type(s) ==
    IF s.region_type # "All regions"
    THEN IF s.region_type = "Country"
         THEN [s EXCEPT !.data = {r \in @ : r.Region_type \in {"Country", "Former Country"}}]
         ELSE [s EXCEPT !.data = {r \in @ : r.Region_type = s.region_type}]
    ELSE s

\* One row of the left join: the boundary row w with the aggregate row r
Joined(w, r) ==
    [c \in DOMAIN r \cup {"name"} |->
        CASE c = "name" -> w.name
          [] c = "iso_a3" -> w.iso_a3
          [] c = "Region" -> IF r.Region_type \in {"Country", "Former Country"}
                             THEN Some(w.name) ELSE Some(r.Region)
          [] OTHER -> Some(r[c])]

\* The row of a boundary row that no aggregate row matches: every column of
\* the right-hand frame is null.
Unmatched(w, columns) ==
    [c \in columns \cup {"name"} |->
        CASE c = "name" -> w.name
          [] c = "iso_a3" -> w.iso_a3
          [] OTHER -> NULL]

\* The join as an inner join (how='inner'): regions without a row are left out
merge_geolocation_data_inner(s) ==
    [s EXCEPT !.data =
        UNION { {Joined(w, r) : r \in {x \in s.data : x.iso_a3 = w.iso_a3}}
                : w \in world_map_data }]

merge_geolocation_data(s) ==
    LET columns == UNION {DOMAIN r : r \in s.data}
    IN [s EXCEPT !.data =
          UNION { LET hits == {r \in s.data : r.iso_a3 = w.iso_a3}
                  IN IF hits = {} THEN {Unmatched(w, columns)}
                     ELSE {Joined(w, r) : r \in hits}
                  : w \in world_map_data }]

\* Indices of the register rows with the region on one side
RowsOf(frame, side, region) ==
    {i \in 1..Len(frame) : Key(frame[i], side)[1] = region}

get_region_iso_a3(s) ==
    LET sup == RowsOf(s.df, "Supplier", s.region)
        rec == RowsOf(s.df, "Recipient", s.region)
    IN IF sup # {}
       THEN [self |-> [s EXCEPT !.iso_a3 = s.df[Min(sup)].Supplier_iso_a3], exc |-> ""]
       ELSE IF rec # {}
       THEN [self |-> [s EXCEPT !.iso_a3 = s.df[Min(rec)].Recipient_iso_a3], exc |-> ""]
       ELSE [self |-> s, exc |-> "IndexError"]

\* prepare_plot_data without the emptiness check before the join
prepare_plot_data_unchecked(s) ==
    LET s1 == filter_data(s)
        s2 == IF HasRegion(s1) THEN calculate_totals_for_region(s1)
              ELSE calculate_totals_global(s1)
        s4 == merge_geolocation_data(filter_region_type(s2))
    IN IF HasRegion(s4) THEN get_region_iso_a3(s4) ELSE [self |-> s4, exc |-> ""]

prepare_plot_data(s) ==
    LET s1 == filter_data(s)
        s2 == IF HasRegion(s1) THEN calculate_totals_for_region(s1)
              ELSE calculate_totals_global(s1)
        s3 == filter_region_type(s2)
    IN IF s3.data = {} THEN [self |-> s3, exc |-> NoDataError]
       ELSE LET s4 == merge_geolocation_data(s3)
            IN IF HasRegion(s4) THEN get_region_iso_a3(s4)
               ELSE [self |-> s4, exc |-> ""]

\* math.floor(math.log10(m)) for a whole m >= 1
RECURSIVE floor_log10(_)
floor_log10(m) == IF m >= 10 THEN 1 + floor_log10(m \div 10) ELSE 0

\* round(m, -k) for m >= 0: the nearest multiple of 10^k, a tie to the even one
round(m, k) ==
    LET p == pow(10, k)
        q == m \div p
        r == m % p
    IN IF 2 * r > p \/ (2 * r = p /\ q % 2 = 1) THEN (q + 1) * p ELSE q * p

ValueError == "ValueError"

\* self.data[self.unit].abs().max(): the largest magnitude among the rows
\* that have a quantity, NaN (null) when no row has one
max_abs_value(s) ==
    LET present == {abs(r.units[1]) : r \in {x \in s.data : x.units # NULL}}
    IN IF present = {} THEN NULL ELSE Some(Max(present))

\* A tick generation that never fails: no ticks, no error
get_cbar_ticks_silent(s) ==
    [tickvals |-> <<>>, ticktext |-> <<>>, exc |-> ""]

\* The two branches compute the same bound and the same positive powers; the
\* diverging one mirrors them around 0.  math.log10 raises ValueError at 0
\* and math.floor raises ValueError at NaN.
get_cbar_ticks(s) ==
    LET m == max_abs_value(s)
    IN IF m = NULL \/ m = Some(0)
       THEN [tickvals |-> <<>>, ticktext |-> <<>>, exc |-> ValueError]
       ELSE LET rounded == round(m[1], floor_log10(m[1]))
                bound == pow(10, floor_log10(rounded) + 1)
                n == floor_log10(bound)
                powers_of_10_pos == [i \in 1..n |-> pow(10, i)]
                powers_of_10_neg == [i \in 1..n |-> -pow(10, n + 1 - i)]
                powers_of_10 ==
                    IF s.activity = "Net Balance"
                    THEN powers_of_10_neg \o <<0>> \o powers_of_10_pos
                    ELSE powers_of_10_pos
            IN [tickvals |-> [i \in DOMAIN powers_of_10 |-> signed_log(powers_of_10[i])],
                ticktext |-> powers_of_10,
                exc |-> ""]

\* f"{self.region}": the name, 'None' for None
str(region) == IF region = <<>> THEN <<"None">> ELSE region

year_part(s) == IF s.year # "Overall" THEN <<s.year, " - ">> ELSE <<>>
category_part(s) == IF s.arms_category # "All" THEN <<" - ", s.arms_category>> ELSE <<>>

color_scale(s) ==
    CASE s.activity = "Supplied" -> "Blues"
      [] s.activity = "Received" -> "Reds"
      [] s.activity = "Net Balance" -> "RdBu"
      [] s.activity = "Total Activity" -> "Magenta"

\* The dictionary of either get_plot_dict method, given its title.  The hover
\* template and its custom data are columns of self.data and are left out.
plot_dict_of(s, title) ==
    LET ticks == get_cbar_ticks(s)
    IN IF ticks.exc # "" THEN [plot_dict |-> s.plot_dict, exc |-> ticks.exc]
       ELSE [plot_dict |-> [color_scale |-> color_scale(s), title |-> title,
                            cbar_tickvals |-> ticks.tickvals,
                            cbar_ticktext |-> ticks.ticktext],
             exc |-> ""]

get_plot_dict_global(s) ==
    LET phrase ==
            CASE s.activity = "Supplied" -> "Weapons Supplied to other regions"
              [] s.activity = "Received" -> "Weapons Received from other regions"
              [] s.activity = "Net Balance" -> "Net Balance (Supplied - Received)"
              [] s.activity = "Total Activity" -> "Total Activity (Supplied + Received)"
    IN plot_dict_of(s, str(s.region) \o <<" - ">> \o year_part(s) \o <<phrase>>
                       \o category_part(s))

get_plot_dict_for_region(s) ==
    LET phrase ==
            CASE s.activity = "Supplied" -> "Weapons Supplied"
              [] s.activity = "Received" -> "Weapons Received"
              [] s.activity = "Net Balance" -> "Net Balance (Supplied - Received)"
              [] s.activity = "Total Activity" -> "Total Activity (Supplied + Received)"
    IN plot_dict_of(s, year_part(s) \o <<phrase>> \o category_part(s))

----------------------------------------------------------------------------
(* The inputs: registers and queries *)

Row(s, r, y, c, u) ==
    [Supplier |-> s, Recipient |-> r, year |-> y, category |-> c, units |-> u]

RowPool ==
    { Row(Russia, India, 2020, "Aircraft", 50),
      Row(India, Russia, 2020, "Aircraft", 50),
      Row(SovietUnion, India, 1990, "Ships", 10),
      Row(Russia, SovietUnion, 1990, "Aircraft", 10),
      Row(NATO, India, 2020, "Ships", 10),
      Row(EuropeanUnion, India, 2020, "Ships", 10),
      Row(India, LTTE, 2020, "Ships", 10),
      Row(Russia, UnknownRebels, 1990, "Aircraft", 10),
      Row(Singapore, Russia, 2020, "Aircraft", 45) }

Registers == UNION { [1..n -> RowPool] : n \in 1..MaxRows }

Activities == {"Supplied", "Received", "Net Balance", "Total Activity"}
RegionTypes == {"Country", "Former Country", "Organisation", "Rebel Group", "Unknown"}
RegionTypeFilters == {"All regions", "Country", "Former Country", "Organisation"}
YearFilters == {"Overall", "2020", "1900"}
CategoryFilters == {"All", "Aircraft"}
FocusRegions == {<<>>, Russia, India}

Queries ==
    [activity : Activities, year : YearFilters, region_type : RegionTypeFilters,
     arms_category : CategoryFilters, region : FocusRegions]

NoPlotDict == [color_scale |-> "", title |-> <<>>, cbar_tickvals |-> <<>>,
               cbar_ticktext |-> <<>>]

NoQuery ==
    [activity |-> "", year |-> "", region_type |-> "", arms_category |-> "",
     region |-> <<>>]

----------------------------------------------------------------------------
(* State machine *)

Init ==
    /\ raw \in Registers
    /\ df = raw
    /\ countries = {}
    /\ rebel_groups = {}
    /\ orgs = {}
    /\ pc = "loaded"
    /\ mp = NoQuery
    /\ data = {}
    /\ iso_a3 = NULL
    /\ exc = ""
    /\ world_map_data = get_world_map_data
    /\ plot_dict = NoPlotDict

ArmsTradeDataSelf ==
    [df |-> df, countries |-> countries, rebel_groups |-> rebel_groups, orgs |-> orgs]

SetArmsTradeData(a) ==
    /\ df' = a.df
    /\ countries' = a.countries
    /\ rebel_groups' = a.rebel_groups
    /\ orgs' = a.orgs

AssignRegionTypes ==
    /\ pc = "loaded"
    /\ SetArmsTradeData(assign_region_types(ArmsTradeDataSelf))
    /\ pc' = "typed"
    /\ UNCHANGED <<raw, mp, data, iso_a3, exc, world_map_data, plot_dict>>

AssignIsoA3Codes ==
    /\ pc = "typed"
    /\ SetArmsTradeData(assign_iso_a3_codes(ArmsTradeDataSelf))
    /\ pc' = "coded"
    /\ UNCHANGED <<raw, mp, data, iso_a3, exc, world_map_data, plot_dict>>

RemoveTrailingAsterisk ==
    /\ pc = "coded"
    /\ SetArmsTradeData(remove_trailing_asterisk(ArmsTradeDataSelf))
    /\ pc' = "returned"
    /\ UNCHANGED <<raw, mp, data, iso_a3, exc, world_map_data, plot_dict>>

PlotStages == {"constructed", "prepared", "raised"}

\* MapPlotter(df, activity, date_column, year, region_type, arms_category, unit, region)
NewMapPlotter ==
    /\ pc = "returned"
    /\ \E q \in Queries : mp' = q
    /\ data' = {}
    /\ iso_a3' = NULL
    /\ exc' = ""
    /\ plot_dict' = NoPlotDict
    /\ pc' = "constructed"
    /\ UNCHANGED <<raw, df, countries, rebel_groups, orgs, world_map_data>>

MapPlotterSelf ==
    [df |-> df, activity |-> mp.activity, year |-> mp.year,
     region_type |-> mp.region_type, arms_category |-> mp.arms_category,
     region |-> mp.region, data |-> data, iso_a3 |-> iso_a3,
     plot_dict |-> plot_dict]

PreparePlotData ==
    /\ pc \in PlotStages
    /\ LET r == prepare_plot_data(MapPlotterSelf)
       IN /\ df' = r.self.df
          /\ mp' = [activity |-> r.self.activity, year |-> r.self.year,
                    region_type |-> r.self.region_type,
                    arms_category |-> r.self.arms_category, region |-> r.self.region]
          /\ data' = r.self.data
          /\ iso_a3' = r.self.iso_a3
          /\ exc' = r.exc
          /\ pc' = IF r.exc = "" THEN "prepared" ELSE "raised"
    /\ UNCHANGED <<raw, countries, rebel_groups, orgs, world_map_data, plot_dict>>

\* plot_choropleth after prepare_plot_data has returned: the plot dictionary
\* of the focus or of the global view.  The figure is drawn from self.data
\* and self.plot_dict and changes neither.
GetPlotDict ==
    /\ pc = "prepared"
    /\ LET r == IF HasRegion(MapPlotterSelf)
                THEN get_plot_dict_for_region(MapPlotterSelf)
                ELSE get_plot_dict_global(MapPlotterSelf)
       IN /\ plot_dict' = r.plot_dict
          /\ exc' = r.exc
          /\ pc' = IF r.exc = "" THEN "plotted" ELSE "failed"
    /\ UNCHANGED <<raw, df, countries, rebel_groups, orgs, mp, data, iso_a3,
                   world_map_data>>

\* The caller lets go of the MapPlotter once its request is served; the
\* register it was given stays with the caller for the next request.
DropMapPlotter ==
    /\ pc \in {"prepared", "raised", "plotted", "failed"}
    /\ mp' = NoQuery
    /\ data' = {}
    /\ iso_a3' = NULL
    /\ exc' = ""
    /\ plot_dict' = NoPlotDict
    /\ pc' = "returned"
    /\ UNCHANGED <<raw, df, countries, rebel_groups, orgs, world_map_data>>

Next ==
    \/ AssignRegionTypes
    \/ AssignIsoA3Codes
    \/ RemoveTrailingAsterisk
    \/ NewMapPlotter
    \/ PreparePlotData
    \/ GetPlotDict
    \/ DropMapPlotter

Spec == Init /\ [][Next]_vars

----------------------------------------------------------------------------
(* Vocabulary of the properties *)

Prepared == pc = "prepared"
Finished == pc \in {"prepared", "raised"}
Composite == mp.activity \in {"Net Balance", "Total Activity"}
Focused == mp.region # <<>>

\* The side of a trade row that the grouped identity is taken from in the
\* single-quantity modes
GroupedSide ==
    IF Focused
    THEN (IF mp.activity = "Supplied" THEN "Recipient" ELSE "Supplier")
    ELSE (IF mp.activity = "Supplied" THEN "Supplier" ELSE "Recipient")

\* The region-type filter of filter_region_type, on one type
Admits(filter, type) ==
    \/ filter = "All regions"
    \/ filter = "Country" /\ type \in {"Country", "Former Country"}
    \/ filter = type

\* The row filter of the query on one register row
PassesRowFilter(r) ==
    /\ mp.year # "Overall" => r.year = int(mp.year)
    /\ mp.arms_category # "All" => r.category = mp.arms_category
    /\ Focused =>
         CASE mp.activity = "Supplied" ->
                r.Supplier = mp.region /\ r.Recipient_region_type = mp.region_type
           [] mp.activity = "Received" -> r.Recipient = mp.region
           [] OTHER -> r.Supplier = mp.region \/ r.Recipient = mp.region

\* Some register row passes the row filter and has, on a grouped side, an
\* identity that the grouping keeps (it has a map-code), that is not the focus
\* region and that the region-type filter admits.
SomeRowSurvives ==
    \E i \in 1..Len(df) :
        \E side \in (IF Composite THEN {"Supplier", "Recipient"} ELSE {GroupedSide}) :
            LET k == Key(df[i], side)
            IN /\ PassesRowFilter(df[i])
               /\ k[2] # NULL
               /\ Focused => k[1] # mp.region
               /\ Admits(mp.region_type, k[3])

C2_OneRowPerMapCode ==
    Prepared =>
        \A w \in world_map_data :
            Cardinality({r \in data : r.iso_a3 = w.iso_a3}) = 1

\* A one-row register Russia -> India (2020, Aircraft, 50 units)
ScenarioRegister ==
    /\ Len(df) = 1
    /\ df[1].Supplier = Russia /\ df[1].Recipient = India
    /\ df[1].year = 2020 /\ df[1].category = "Aircraft" /\ df[1].units = 50

\* The identities on one side of the register rows that pass the row filter
Ids(side) ==
    {Key(df[i], side) : i \in {j \in 1..Len(df) : PassesRowFilter(df[j])}}

\* The units of the rows that pass the row filter and have identity k on the side
RECURSIVE TotalUpTo(_, _, _)
TotalUpTo(i, side, k) ==
    IF i = 0 THEN 0
    ELSE (IF PassesRowFilter(df[i]) /\ Key(df[i], side) = k THEN df[i].units ELSE 0)
         + TotalUpTo(i - 1, side, k)

SuppliedBy(k) == TotalUpTo(Len(df), "Supplier", k)
ReceivedBy(k) == TotalUpTo(Len(df), "Recipient", k)

\* An identity that can be drawn: it has a map-code of the renderable set and
\* the region-type filter admits it
Shown(k) ==
    /\ k[2] # NULL
    /\ Admits(mp.region_type, k[3])
    /\ \E w \in world_map_data : w.iso_a3 = k[2][1]

\* The display name of a shown identity in the output
Display(k) ==
    IF k[3] \in {"Country", "Former Country"}
    THEN (CHOOSE w \in world_map_data : w.iso_a3 = k[2][1]).name
    ELSE k[1]

\* The output row of identity k
RowOf(k, r) ==
    /\ r.iso_a3 = k[2][1]
    /\ r.Region_type = Some(k[3])
    /\ r.Region = Some(Display(k))

\* The renderable regions without a shown identity among ids have exactly one
\* row, and its unit quantity is q
RestHas(ids, q) ==
    \A w \in world_map_data :
        (~ \E k \in ids : Shown(k) /\ k[2][1] = w.iso_a3) =>
            /\ Cardinality({r \in data : r.iso_a3 = w.iso_a3}) = 1
            /\ \A r \in data : r.iso_a3 = w.iso_a3 => r.units = q

SuppliedView == Prepared /\ ~Focused /\ mp.activity = "Supplied"

SuppliersCarrySum ==
    \A k \in Ids("Supplier") :
        Shown(k) => \E r \in data : RowOf(k, r) /\ r.units = Some(SuppliedBy(k))

\* C3 (as stated): in the global Supplied view every supplier's row carries its
\* sum and every renderable region without activity has the unit quantity 0.
C3_ZeroFilled ==
    SuppliedView => SuppliersCarrySum /\ RestHas(Ids("Supplier"), Some(0))

\* C3 (amended): in the global Supplied view every supplier's row carries its
\* sum and every renderable region without activity is present once with the
\* unit quantity null.
C3_NullFilled ==
    SuppliedView => SuppliersCarrySum /\ RestHas(Ids("Supplier"), NULL)

\* The scenario: Russia has 50 units with log = ln(51), China has no quantity
C3_Witness ==
    /\ SuppliedView /\ ScenarioRegister
    /\ mp.year = "2020" /\ mp.arms_category = "All"
    /\ \E r \in data : /\ r.iso_a3 = "RUS" /\ r.units = Some(50)
                       /\ r.log = Some([sgn |-> 1, arg |-> 51])
    /\ \E r \in data : r.iso_a3 = "CHN" /\ r.units = NULL

NetBalanceView == Prepared /\ ~Focused /\ mp.activity = "Net Balance"

\* Every identity's row shows its two totals and the quantity net(S, R)
NetIs(net(_, _)) ==
    \A k \in Ids("Supplier") \cup Ids("Recipient") :
        Shown(k) =>
            \E r \in data :
                /\ RowOf(k, r)
                /\ r.Supplied = Some(SuppliedBy(k))
                /\ r.Received = Some(ReceivedBy(k))
                /\ r.units = Some(net(SuppliedBy(k), ReceivedBy(k)))

ReceivedMinusSupplied(S, R) == R - S
SuppliedMinusReceived(S, R) == S - R

\* C4 (as stated): in the global Net Balance view every identity's net
\* quantity is its Received total minus its Supplied total.
C4_ReceivedMinusSupplied == NetBalanceView => NetIs(ReceivedMinusSupplied)

\* C4 (amended): in the global Net Balance view every identity's net quantity
\* is its Supplied total minus its Received total.
C4_SuppliedMinusReceived == NetBalanceView => NetIs(SuppliedMinusReceived)

\* Russia -> India of 50 units: India -50, Russia +50
C4_Witness ==
    /\ NetBalanceView /\ ScenarioRegister
    /\ \E r \in data : r.iso_a3 = "IND" /\ r.units = Some(-50) /\ r.Received = Some(50)
    /\ \E r \in data : r.iso_a3 = "RUS" /\ r.units = Some(50) /\ r.Supplied = Some(50)

\* The aggregate frame as it is before the region-type filter and the join
PreJoinRows ==
    LET s1 == filter_data(MapPlotterSelf)
    IN (IF Focused THEN calculate_totals_for_region(s1)
        ELSE calculate_totals_global(s1)).data

\* C5: in the composite modes every identity of the filtered rows other than
\* the focus region has exactly one pre-join row, with its Supplied and
\* Received totals, and in Total Activity the quantity is their sum.
C5_OneRowPerIdentity ==
    (Finished /\ Composite) =>
        \A k \in Ids("Supplier") \cup Ids("Recipient") :
            k[1] # mp.region =>
                /\ Cardinality({r \in PreJoinRows : r.Region = k[1]}) = 1
                /\ \A r \in PreJoinRows :
                     r.Region = k[1] =>
                        /\ r.Region_type = k[3]
                        /\ r.Supplied = SuppliedBy(k)
                        /\ r.Received = ReceivedBy(k)
                        /\ mp.activity = "Total Activity" => r.units = r.Supplied + r.Received

\* C6: with a focus region no output row that carries a quantity has the focus
\* region's display name, and in the Received view every supplier of the focus
\* region has a row with the sum it supplied.
C6_FocusNeverShown ==
    (Prepared /\ Focused) =>
        /\ \A r \in data : r.units # NULL => r.Region # Some(mp.region)
        /\ mp.activity = "Received" =>
             \A k \in Ids("Supplier") :
                (Shown(k) /\ k[1] # mp.region) =>
                    \E r \in data : RowOf(k, r) /\ r.units = Some(SuppliedBy(k))

\* The row filter without any restriction on the counterpart's region-type
Participates(r) ==
    /\ mp.year # "Overall" => r.year = int(mp.year)
    /\ mp.arms_category # "All" => r.category = mp.arms_category
    /\ Focused =>
         CASE mp.activity = "Supplied" -> r.Supplier = mp.region
           [] mp.activity = "Received" -> r.Recipient = mp.region
           [] OTHER -> r.Supplier = mp.region \/ r.Recipient = mp.region

\* The grouped identities of the participating rows that have a map-code
Counterparts ==
    {k \in UNION { {Key(df[i], side) :
                      side \in (IF Composite THEN {"Supplier", "Recipient"}
                                ELSE {GroupedSide})}
                   : i \in {j \in 1..Len(df) : Participates(df[j])} } :
        k[2] # NULL /\ (Focused => k[1] # mp.region)}

\* The identities of the frame that is left after filter_region_type
Retained ==
    IF exc = NoDataError THEN {}
    ELSE {k \in Counterparts : \E r \in filter_region_type(
                [MapPlotterSelf EXCEPT !.data = PreJoinRows]).data :
                    r.Region = k[1] /\ r.Region_type = k[3]}

\* C7: in every mode and view the identities retained are exactly those whose
\* region-type the filter admits.
C7_RegionTypeFilter ==
    Finished => Retained = {k \in Counterparts : Admits(mp.region_type, k[3])}

\* The precedence of the classification, on the name as loaded
ByPrecedence(name) ==
    IF HasUnknown(name) THEN "Unknown"
    ELSE IF endswith(name, 2) THEN "Organisation"
    ELSE IF endswith(name, 1) THEN "Rebel Group"
    ELSE IF name \in former_countries THEN "Former Country"
    ELSE "Country"

Classified == pc # "loaded"

\* C8: once classified, each supplier and recipient has exactly the region-type
\* that the precedence unknown / '**' / '*' / nine-name list / country gives to
\* its name, one of the five, and classifying the classified register again
\* (names not yet stripped) changes nothing.
C8_Classification ==
    /\ Cardinality(former_countries) = 9
    /\ Classified =>
         \A i \in 1..Len(df) :
            /\ df[i].Supplier_region_type = ByPrecedence(raw[i].Supplier)
            /\ df[i].Recipient_region_type = ByPrecedence(raw[i].Recipient)
            /\ {df[i].Supplier_region_type, df[i].Recipient_region_type} \subseteq RegionTypes
    /\ pc \in {"typed", "coded"} =>
         assign_region_types(ArmsTradeDataSelf) = ArmsTradeDataSelf

\* A name with 'unknown' and a trailing asterisk is Unknown, beside a Country
C8_Witness ==
    /\ pc = "typed"
    /\ \E i \in 1..Len(df) :
          /\ raw[i].Recipient = UnknownRebels
          /\ df[i].Recipient_region_type = "Unknown"
          /\ df[i].Supplier_region_type = "Country"

Stripped == pc \notin {"loaded", "typed", "coded"}

\* C9: the names are the loaded ones until both the region-types and the
\* map-codes are assigned; in the returned register no name ends with '*', no
\* row is lost, and each region-type and map-code is the one of the name as
\* loaded.
C9_StripAfterClassification ==
    /\ Len(df) = Len(raw)
    /\ ~Stripped =>
         \A i \in 1..Len(df) :
            df[i].Supplier = raw[i].Supplier /\ df[i].Recipient = raw[i].Recipient
    /\ Stripped =>
         \A i \in 1..Len(df) :
            /\ ~endswith(df[i].Supplier, 1) /\ ~endswith(df[i].Recipient, 1)
            /\ df[i].Supplier_region_type = ByPrecedence(raw[i].Supplier)
            /\ df[i].Recipient_region_type = ByPrecedence(raw[i].Recipient)
            /\ df[i].Supplier_iso_a3 =
                 iso_for(raw[i].Supplier, ByPrecedence(raw[i].Supplier),
                         countries_of(raw), rebel_groups_of(raw))
            /\ df[i].Recipient_iso_a3 =
                 iso_for(raw[i].Recipient, ByPrecedence(raw[i].Recipient),
                         countries_of(raw), rebel_groups_of(raw))

\* 'NATO**' is returned as 'NATO', an Organisation with the code BEL
C9_Witness ==
    /\ pc = "returned"
    /\ \E i \in 1..Len(df) :
          /\ raw[i].Supplier = NATO
          /\ df[i].Supplier = <<"NATO">>
          /\ df[i].Supplier_region_type = "Organisation"
          /\ df[i].Supplier_iso_a3 = Some("BEL")

\* The register that get_arms_trade_data returns for the loaded rows
Enriched ==
    remove_trailing_asterisk(assign_iso_a3_codes(assign_region_types(
        [df |-> raw, countries |-> {}, rebel_groups |-> {}, orgs |-> {}]))).df

\* What prepare_plot_data gives on a MapPlotter made for the query on the
\* returned register, with no query before it
FirstRun ==
    prepare_plot_data([MapPlotterSelf EXCEPT !.df = Enriched, !.data = {}, !.iso_a3 = NULL])

\* C10: no step of a MapPlotter changes the register or the boundary table,
\* running prepare_plot_data again leaves the aggregate as it is, and the
\* aggregate of a query is the one a first query on the returned register gives.
C10_RegisterReadOnly ==
    /\ [][Stripped => (df' = df /\ world_map_data' = world_map_data)]_vars
    /\ [][(Finished /\ pc' \in {"prepared", "raised"}) =>
             (data' = data /\ exc' = exc /\ iso_a3' = iso_a3)]_vars
    /\ [](Finished => (data = FirstRun.self.data /\ exc = FirstRun.exc))

\* A focused composite query answered on a two-row register
C10_Witness ==
    /\ Prepared /\ Focused /\ Composite
    /\ Len(df) = 2 /\ df = Enriched
    /\ \E r \in data : r.units # NULL

----------------------------------------------------------------------------
(* C11 *)

\* The transformed value of every whole x of magnitude up to MaxAbs, in
\* thousandths
Transformed == [x \in -MaxAbs..MaxAbs |-> value_of(signed_log(x))]

\* inverse(y) is x to within one percent of |x|
RoundTrips(x, y) == 100 * abs(inverse(y) - x * Scale) <= abs(x) * Scale

SignedLogLaws ==
    /\ Transformed[0] = 0
    /\ \A x \in -MaxAbs..MaxAbs :
         /\ Transformed[-x] = -Transformed[x]
         /\ sign(Transformed[x]) = sign(x)
         /\ RoundTrips(x, Transformed[x])
    /\ \A x, y \in -MaxAbs..MaxAbs : x < y => Transformed[x] < Transformed[y]

\* The rows of the aggregate that carry a quantity
Quantified == {r \in data : r.units # NULL}

\* C11: signed_log(x) = sign(x) * ln(1 + |x|) is 0 at 0, odd, of the sign of x,
\* strictly increasing, and undone by sign(y) * (exp(|y|) - 1) to within the
\* tolerance of the arithmetic, for every whole x up to MaxAbs in magnitude;
\* and the transformed column of an answered query is signed_log of the
\* quantity column, row by row, with the same sign, the same order between
\* rows, and the quantity back under the inverse.
C11_SignedLog ==
    /\ SignedLogLaws
    /\ Prepared =>
          /\ \A r \in Quantified :
                /\ r.log = Some(signed_log(r.units[1]))
                /\ sign(value_of(r.log[1])) = sign(r.units[1])
                /\ RoundTrips(r.units[1], value_of(r.log[1]))
          /\ \A r, q \in Quantified :
                /\ r.units[1] < q.units[1] => value_of(r.log[1]) < value_of(q.log[1])
                /\ r.units[1] = -q.units[1] => value_of(r.log[1]) = -value_of(q.log[1])

\* A net balance answered with a supplier-side and a recipient-side row of
\* opposite quantities, 50 and -50, transformed to 3.927 and -3.927
C11_Witness ==
    /\ Prepared
    /\ \E r, q \in Quantified :
         /\ r.units = Some(50) /\ value_of(r.log[1]) = 3927
         /\ q.units = Some(-50) /\ value_of(q.log[1]) = -3927

----------------------------------------------------------------------------
(* C12 *)

Plotted == pc = "plotted"
NonDiverging == mp.activity \in {"Supplied", "Received", "Total Activity"}

\* The largest magnitude among the quantities of the aggregate
MaxMagnitude == Max({abs(r.units[1]) : r \in Quantified})

\* The smallest power of ten above m rounded to its leading digit
UpperBound(m) ==
    LET lead == round(m, floor_log10(m))
    IN Min({p \in {pow(10, i) : i \in 0..(floor_log10(lead) + 1)} : p > lead})

\* The powers of ten from 10 on that satisfy Below, in ascending order
PowersOfTen(B, Below(_, _)) ==
    LET n == Cardinality({i \in 1..floor_log10(B) : Below(pow(10, i), B)})
    IN [i \in 1..n |-> pow(10, i)]

StrictlyBelow(p, B) == p < B

\* C12: in a non-diverging mode with largest magnitude m >= 1, the tick labels
\* are exactly the powers of ten 10, 100, ... strictly below B, the next power
\* of ten above m rounded to its leading digit (B is not a tick), and each
\* tick sits at signed_log of its label.
C12_TicksBelowBound ==
    (Plotted /\ NonDiverging /\ MaxMagnitude >= 1) =>
        /\ plot_dict.cbar_ticktext = PowersOfTen(UpperBound(MaxMagnitude), StrictlyBelow)
        /\ plot_dict.cbar_tickvals =
              [i \in DOMAIN plot_dict.cbar_ticktext |->
                  signed_log(plot_dict.cbar_ticktext[i])]

----------------------------------------------------------------------------
(* C13 *)

FocusPhrase ==
    ( "Supplied" :> "Weapons Supplied" ) @@ ( "Received" :> "Weapons Received" ) @@
    ( "Net Balance" :> "Net Balance (Supplied - Received)" ) @@
    ( "Total Activity" :> "Total Activity (Supplied + Received)" )

GlobalPhrase ==
    ( "Supplied" :> "Weapons Supplied to other regions" ) @@
    ( "Received" :> "Weapons Received from other regions" ) @@
    ( "Net Balance" :> "Net Balance (Supplied - Received)" ) @@
    ( "Total Activity" :> "Total Activity (Supplied + Received)" )

\* C13: the title is [region] - [year] - [activity phrase] - [category] in that
\* order: the region prefix is there exactly when a focus region is set and
\* names it, the year part exactly when the year filter is not 'Overall', the
\* category suffix exactly when the category filter is not 'All', and the
\* phrase is the mode's, in its focus or non-focus wording.
C13_TitleOrder ==
    Plotted =>
        plot_dict.title =
            (IF Focused THEN mp.region \o <<" - ">> ELSE <<>>)
            \o (IF mp.year # "Overall" THEN <<mp.year, " - ">> ELSE <<>>)
            \o <<IF Focused THEN FocusPhrase[mp.activity] ELSE GlobalPhrase[mp.activity]>>
            \o (IF mp.arms_category # "All" THEN <<" - ", mp.arms_category>> ELSE <<>>)

----------------------------------------------------------------------------
(* C14 *)

Failed == pc = "failed"

\* No quantity to scale the colorbar by: every quantity 0, or none present
Degenerate == Quantified = {} \/ MaxMagnitude = 0

\* C14: the empty-result error looks at the row count only.  A query with a
\* surviving row whose aggregate has only quantities of 0, or no row with a
\* map-code of the boundary table, passes prepare_plot_data without error;
\* the tick generation that follows has no guard for it and fails with an
\* error, returning no ticks, and it fails in no other case.
C14_NoMagnitudeGuard ==
    /\ (Finished /\ SomeRowSurvives) => (Prepared /\ exc = "")
    /\ Plotted => ~Degenerate
    /\ Failed => (Degenerate /\ exc = ValueError /\ plot_dict = NoPlotDict)

\* A global net balance where Russia and India each supplied what they
\* received: both rows carry 0 and the ticks fail
C14_Witness ==
    /\ Failed
    /\ mp.activity = "Net Balance"
    /\ \E r \in Quantified : r.Supplied = Some(50) /\ r.Received = Some(50)
    /\ MaxMagnitude = 0

\* The only surviving identity (Singapore) has no row in the boundary table
C14_NothingOnTheMap == Failed /\ Quantified = {}

----------------------------------------------------------------------------
(* C15 *)

NetBalanceQuery == Prepared /\ mp.activity = "Net Balance"

\* The two paths' aggregates of the rows the query's row filter keeps
GlobalPath == calculate_totals_global(filter_data(MapPlotterSelf)).data
FocusPath == calculate_totals_for_region(filter_data(MapPlotterSelf)).data

SameTotals(r, q) ==
    /\ r.Region = q.Region /\ r.iso_a3 = q.iso_a3 /\ r.Region_type = q.Region_type
    /\ r.Supplied = q.Supplied /\ r.Received = q.Received

\* C15: the sign of the net balance differs between the two paths.  With S the
\* units an identity supplied and R the units it received, the global path
\* shows S - R and the focus path R - S; on the same rows the focus path's
\* quantity of an identity is the negation of the global path's.
C15_SignFlips ==
    NetBalanceQuery =>
        /\ \A r \in Quantified :
              r.units[1] = IF Focused THEN r.Received[1] - r.Supplied[1]
                           ELSE r.Supplied[1] - r.Received[1]
        /\ \A k \in Ids("Supplier") \cup Ids("Recipient") :
              (Shown(k) /\ k[1] # mp.region) =>
                  \E r \in data :
                      /\ RowOf(k, r)
                      /\ r.Supplied = Some(SuppliedBy(k))
                      /\ r.Received = Some(ReceivedBy(k))
        /\ \A r \in FocusPath :
              \E q \in GlobalPath : SameTotals(r, q) /\ r.units = -q.units

\* Russia -> India of 50 units seen from Russia: India shows 50 (received
\* minus supplied) where the global view shows -50
C15_Witness ==
    /\ NetBalanceQuery /\ ScenarioRegister /\ mp.region = Russia
    /\ \E r \in data : /\ r.iso_a3 = "IND" /\ r.units = Some(50)
                       /\ r.Supplied = Some(0) /\ r.Received = Some(50)
    /\ \E q \in GlobalPath : q.iso_a3 = "IND" /\ q.units = -50

====
